---- MODULE Spec2Model ----
(***************************************************************************)
(* A model of datatest's comparison core (datatest/require.py).            *)
(*                                                                         *)
(* The comparators are pure functions of (data, requirement).  Each one is *)
(* an operator computed the way the code computes it, and one action per   *)
(* comparator applies it to inputs drawn from small sets: the action       *)
(* records the call in fn/arg and what the call gave in ret.  Return ends  *)
(* the call.  _deephash's traversal keeps a memo that it changes while it  *)
(* recurses, so it is modelled step by step with an explicit call stack.   *)
(***************************************************************************)
EXTENDS Integers, Sequences, FiniteSets, Bags, TLC

VARIABLES
    fn,     \* the function being called, "idle" between calls
    arg,    \* its arguments
    ret,    \* what it returned or raised
    loc     \* values of its local variables that the properties speak of

vars == <<fn, arg, ret, loc>>

(***************************************************************************)
(* Bounds of the model.                                                    *)
(***************************************************************************)
\* longest data collection handed to the set comparator
MaxLen == 3
\* the scalar elements are 1..NumVals
NumVals == 3
\* most items in the two sequences the aligner compares, taken together
MaxSeqTotal == 5
\* most items of data grouped by key, and of a mapping requirement
MaxItems == 2

(***************************************************************************)
(* Python values.  Every value is a record with a type tag t and a payload *)
(* v; the tag decides what isinstance() answers.                           *)
(***************************************************************************)
PyInt(n) == [t |-> "int", v |-> n]
List(s) == [t |-> "list", v |-> s]
None == [t |-> "None", v |-> 0]
NOTFOUND == [t |-> "NOTFOUND", v |-> 0]

\* the difference classes of datatest.errors, by constructor arguments
Extra(x) == [t |-> "Extra", v |-> <<x>>]
Missing(x) == [t |-> "Missing", v |-> <<x>>]
Invalid(actual, expected) == [t |-> "Invalid", v |-> <<actual, expected>>]

\* isinstance(obj, BaseElement): an object taken whole, not as a collection
IsBaseElement(obj) ==
    obj.t \notin {"list", "set", "frozenset", "tuple", "iter", "generator",
                  "DataResult", "DictItems", "list_in_set_order"}

Scalars == {PyInt(n) : n \in 1..NumVals}

RECURSIVE SeqsUpTo(_, _)
SeqsUpTo(S, n) ==
    IF n = 0 THEN {<<>>}
    ELSE LET shorter == SeqsUpTo(S, n - 1)
         IN  shorter \cup {Append(s, x) : s \in {q \in shorter : Len(q) = n - 1}, x \in S}

Range(s) == {s[i] : i \in 1..Len(s)}

(***************************************************************************)
(* _require_set                                                            *)
(***************************************************************************)
\* lines 116-122: the loop over data, from element k on, splitting the
\* elements into those in requirement_set and the others
RECURSIVE RequireSetLoop(_, _, _, _, _)
RequireSetLoop(elems, k, requirement_set, matching_elements, extra_elements) ==
    IF k > Len(elems)
    THEN [matching |-> matching_elements, extra |-> extra_elements]
    ELSE IF elems[k] \in requirement_set
         THEN RequireSetLoop(elems, k + 1, requirement_set,
                             matching_elements \cup {elems[k]}, extra_elements)
         ELSE RequireSetLoop(elems, k + 1, requirement_set,
                             matching_elements, extra_elements \cup {elems[k]})

\* chain(missing, extra) of two generators over sets: what the iterable
\* yields, as a bag (a set is iterated in no particular order)
ChainOf(missing_elements, extra_elements) ==
    [t |-> "iter",
     v |-> SetToBag({Missing(x) : x \in missing_elements})
              (+) SetToBag({Extra(x) : x \in extra_elements})]

\* the same with extra_elements kept as a list: an element that occurs
\* twice in data is reported twice
RequireSet_ListOfExtras(data, requirement_set) ==
    LET elems == IF data = NOTFOUND THEN <<>>
                 ELSE IF IsBaseElement(data) THEN <<data>> ELSE data.v
        split == RequireSetLoop(elems, 1, requirement_set, {}, {})
        missing_elements == requirement_set \ split.matching
        extras == SelectSeq(elems, LAMBDA e : e \notin requirement_set)
        extra_bag == [x \in Range(extras) |->
                        Cardinality({i \in 1..Len(extras) : extras[i] = x})]
    IN  IF extras # <<>> \/ missing_elements # {}
        THEN [t |-> "iter",
              v |-> SetToBag({Missing(x) : x \in missing_elements})
                       (+) [d \in {Extra(x) : x \in Range(extras)} |-> extra_bag[d.v[1]]]]
        ELSE None

RequireSet(data, requirement_set) ==
    LET elems == IF data = NOTFOUND THEN <<>>
                 ELSE IF IsBaseElement(data) THEN <<data>> ELSE data.v
        split == RequireSetLoop(elems, 1, requirement_set, {}, {})
        missing_elements == requirement_set \ split.matching
    IN  IF split.extra # {} \/ missing_elements # {}
        THEN ChainOf(missing_elements, split.extra)
        ELSE None

(***************************************************************************)
(* hash(): CPython's hash of the values the model uses.  An int hashes to  *)
(* itself, except that -1 hashes to -2; a tuple's hash is computed from    *)
(* the hashes of its items in order, a frozenset's from the hashes of its  *)
(* members; a type or a plain object() hashes by identity.  The model      *)
(* keeps the combination exact: two hashes are equal only when the item    *)
(* hashes they were computed from are equal.                               *)
(***************************************************************************)
Class(name) == [t |-> "type", v |-> name]
Tuple(s) == [t |-> "tuple", v |-> s]

\* isinstance(obj, collections.Hashable)
IsHashable(obj) == obj.t \in {"int", "str", "None", "NOTFOUND", "type", "object", "tuple"}

RECURSIVE PyHash(_)
PyHash(obj) ==
    CASE obj.t = "int" -> [t |-> "hash", v |-> IF obj.v = -1 THEN -2 ELSE obj.v]
      [] obj.t = "tuple" ->
            [t |-> "hash_tuple", v |-> [i \in 1..Len(obj.v) |-> PyHash(obj.v[i])]]
      [] obj.t = "frozenset" ->
            [t |-> "hash_frozenset",
             v |-> LET hs == {PyHash(x) : x \in obj.v}
                   IN  [h \in hs |-> Cardinality({x \in obj.v : PyHash(x) = h})]]
      [] OTHER -> [t |-> "hash_id", v |-> obj]

(***************************************************************************)
(* _deephash of a value none of whose parts is referenced twice: a tree.   *)
(* No identity is then met a second time, so no token is ever returned     *)
(* (lines 34-35 are never taken).                                          *)
(***************************************************************************)
RECURSIVE HashableProxyTree(_)
HashableProxyTree(obj) ==
    IF IsHashable(obj) /\ obj.t # "tuple"
    THEN obj
    ELSE Tuple(<<Class(obj.t),
                 Tuple([i \in 1..Len(obj.v) |-> HashableProxyTree(obj.v[i])])>>)

RECURSIVE DeeplyHashable(_)
DeeplyHashable(obj) ==
    /\ IsHashable(obj)
    /\ obj.t = "tuple" => \A i \in 1..Len(obj.v) : DeeplyHashable(obj.v[i])

\* lines 53-56, for a list or tuple of such values or a scalar
DeepHashTree(obj) ==
    IF DeeplyHashable(obj) THEN PyHash(obj) ELSE PyHash(HashableProxyTree(obj))

(***************************************************************************)
(* difflib.SequenceMatcher(a, b), as _require_sequence uses it: no junk,   *)
(* and sequences shorter than the 200 items at which autojunk starts.      *)
(* Indices are Python's: a[i] is written a[i + 1].                         *)
(***************************************************************************)
\* how far a[i:ahi] and b[j:bhi] agree from their first items on
RECURSIVE MatchLen(_, _, _, _, _, _)
MatchLen(a, b, i, j, ahi, bhi) ==
    IF i < ahi /\ j < bhi /\ a[i + 1] = b[j + 1]
    THEN 1 + MatchLen(a, b, i + 1, j + 1, ahi, bhi)
    ELSE 0

\* find_longest_match: the longest block a[i:i+k] = b[j:j+k] inside
\* a[alo:ahi] and b[blo:bhi]; of the longest, the one that starts earliest
\* in a, and of those the one that starts earliest in b
FindLongestMatch(a, b, alo, ahi, blo, bhi) ==
    LET cands == {<<i, j>> : i \in alo..(ahi - 1), j \in blo..(bhi - 1)}
        size(c) == MatchLen(a, b, c[1], c[2], ahi, bhi)
        best == IF cands = {} THEN 0
                ELSE CHOOSE k \in {size(c) : c \in cands} :
                        \A c \in cands : size(c) <= k
    IN  IF best = 0
        THEN [i |-> alo, j |-> blo, k |-> 0]
        ELSE LET longest == {c \in cands : size(c) = best}
                 first == CHOOSE c \in longest :
                            \A d \in longest :
                               c[1] < d[1] \/ (c[1] = d[1] /\ c[2] <= d[2])
             IN  [i |-> first[1], j |-> first[2], k |-> best]

\* get_matching_blocks, before the closing (la, lb, 0): the longest match,
\* then the same to its left and to its right, in order
RECURSIVE MatchingBlocks(_, _, _, _, _, _)
MatchingBlocks(a, b, alo, ahi, blo, bhi) ==
    LET x == FindLongestMatch(a, b, alo, ahi, blo, bhi)
    IN  IF x.k = 0 THEN <<>>
        ELSE (IF alo < x.i /\ blo < x.j
              THEN MatchingBlocks(a, b, alo, x.i, blo, x.j) ELSE <<>>)
             \o <<x>>
             \o (IF x.i + x.k < ahi /\ x.j + x.k < bhi
                 THEN MatchingBlocks(a, b, x.i + x.k, ahi, x.j + x.k, bhi) ELSE <<>>)

\* adjacent blocks are collapsed into one
RECURSIVE CollapseBlocks(_)
CollapseBlocks(blocks) ==
    IF Len(blocks) < 2 THEN blocks
    ELSE LET x == blocks[1]
             y == blocks[2]
         IN  IF x.i + x.k = y.i /\ x.j + x.k = y.j
             THEN CollapseBlocks(<<[i |-> x.i, j |-> x.j, k |-> x.k + y.k]>>
                                 \o SubSeq(blocks, 3, Len(blocks)))
             ELSE <<x>> \o CollapseBlocks(Tail(blocks))

GetMatchingBlocks(a, b) ==
    Append(CollapseBlocks(MatchingBlocks(a, b, 0, Len(a), 0, Len(b))),
           [i |-> Len(a), j |-> Len(b), k |-> 0])

\* get_opcodes: between two matching blocks one replace, delete or insert
RECURSIVE OpcodesFrom(_, _, _, _)
OpcodesFrom(blocks, n, i, j) ==
    IF n > Len(blocks) THEN <<>>
    ELSE LET m == blocks[n]
             tag == IF i < m.i /\ j < m.j THEN "replace"
                    ELSE IF i < m.i THEN "delete"
                    ELSE IF j < m.j THEN "insert" ELSE ""
         IN  (IF tag # "" THEN <<[tag |-> tag, i1 |-> i, i2 |-> m.i, j1 |-> j, j2 |-> m.j]>>
              ELSE <<>>)
             \o (IF m.k > 0
                 THEN <<[tag |-> "equal", i1 |-> m.i, i2 |-> m.i + m.k,
                         j1 |-> m.j, j2 |-> m.j + m.k]>>
                 ELSE <<>>)
             \o OpcodesFrom(blocks, n + 1, m.i + m.k, m.j + m.k)

GetOpcodes(a, b) == OpcodesFrom(GetMatchingBlocks(a, b), 1, 0, 0)

(***************************************************************************)
(* _require_sequence                                                       *)
(***************************************************************************)
\* an iterable that declares the type its evaluation gives (evaluation_type)
DataResult(evaluation_type, items) ==
    [t |-> "DataResult", v |-> <<evaluation_type, items>>]

\* line 70 without the evaluation_type: data.__class__
DataTypeOf_ClassOnly(data) == data.t

\* line 70: getattr(data, 'evaluation_type', data.__class__)
DataTypeOf(data) == IF data.t = "DataResult" THEN data.v[1] ELSE data.t

\* lines 73-74: the message of the ValueError, formatted with the name of
\* the type
SequenceOrderMessage(type_name) ==
    <<"data type ", type_name, " can not be checked for sequence order">>

\* issubclass(data_type, collections.Sequence)
IsSequenceType(data_type) == data_type \in {"list", "tuple", "str"}

\* issubclass(data_type, BaseElement)
IsBaseElementType(data_type) == IsBaseElement([t |-> data_type])

\* iterating data
ItemsOf(data) == IF data.t = "DataResult" THEN data.v[2] ELSE data.v

Raise(exception) == [t |-> "raise", v |-> exception]
Dict(items) == [t |-> "dict", v |-> items]

\* a Missing keyed by where its run starts, whatever its own place
RECURSIVE AppendDiff_KeyedByRunStart(_, _, _, _, _, _)
AppendDiff_KeyedByRunStart(data, sequence, i1, i2, j1, j2) ==
    IF j1 = j2
    THEN [n \in 1..(i2 - i1) |->
            [key |-> <<i1 + n - 1, j1>>, diff |-> Extra(data[i1 + n])]]
    ELSE IF i1 = i2
    THEN [n \in 1..(j2 - j1) |->
            [key |-> <<i1, j1>>, diff |-> Missing(sequence[j1 + n])]]
    ELSE LET shortest == IF i2 - i1 < j2 - j1 THEN i2 - i1 ELSE j2 - j1
         IN  [n \in 1..shortest |->
                [key |-> <<i1 + n - 1, j1 + n - 1>>,
                 diff |-> Invalid(data[i1 + n], sequence[j1 + n])]]
             \o (IF (i1 + shortest # i2) \/ (j1 + shortest # j2)
                 THEN AppendDiff_KeyedByRunStart(data, sequence,
                                                 i1 + shortest, i2, j1 + shortest, j2)
                 ELSE <<>>)

\* lines 87-100, append_diff: the assignments differences[key] = diff it
\* makes for one run, in the order it makes them
RECURSIVE AppendDiff(_, _, _, _, _, _)
AppendDiff(data, sequence, i1, i2, j1, j2) ==
    IF j1 = j2
    THEN [n \in 1..(i2 - i1) |->
            [key |-> <<i1 + n - 1, j1>>, diff |-> Extra(data[i1 + n])]]
    ELSE IF i1 = i2
    THEN [n \in 1..(j2 - j1) |->
            [key |-> <<i1, j1 + n - 1>>, diff |-> Missing(sequence[j1 + n])]]
    ELSE LET shortest == IF i2 - i1 < j2 - j1 THEN i2 - i1 ELSE j2 - j1
         IN  [n \in 1..shortest |->
                [key |-> <<i1 + n - 1, j1 + n - 1>>,
                 diff |-> Invalid(data[i1 + n], sequence[j1 + n])]]
             \o (IF (i1 + shortest # i2) \/ (j1 + shortest # j2)
                 THEN AppendDiff(data, sequence, i1 + shortest, i2, j1 + shortest, j2)
                 ELSE <<>>)

\* lines 102-104: append_diff for every opcode that is not 'equal'
RECURSIVE DiffWrites(_, _, _, _)
DiffWrites(data, sequence, opcodes, n) ==
    IF n > Len(opcodes) THEN <<>>
    ELSE (IF opcodes[n].tag # "equal"
          THEN AppendDiff(data, sequence, opcodes[n].i1, opcodes[n].i2,
                          opcodes[n].j1, opcodes[n].j2)
          ELSE <<>>)
         \o DiffWrites(data, sequence, opcodes, n + 1)

\* a dict, by its items in the order of insertion
DictItemsOf(f, keys) == [n \in 1..Len(keys) |-> <<keys[n], f[keys[n]]>>]

\* the keys of a sequence of assignments, each where it is assigned first
RECURSIVE KeysInOrder(_, _, _)
KeysInOrder(writes, n, keys) ==
    IF n > Len(writes) THEN keys
    ELSE KeysInOrder(writes, n + 1,
                     IF \E m \in 1..Len(keys) : keys[m] = writes[n].key
                     THEN keys ELSE Append(keys, writes[n].key))

\* the dictionary a sequence of assignments leaves: the last one to a key stays
DictOfWrites(writes) ==
    LET f == [key \in {writes[n].key : n \in 1..Len(writes)} |->
                LET last == CHOOSE n \in 1..Len(writes) :
                               /\ writes[n].key = key
                               /\ \A m \in (n + 1)..Len(writes) : writes[m].key # key
                IN  writes[last].diff]
    IN  DictItemsOf(f, KeysInOrder(writes, 1, <<>>))

\* _require_sequence: what it returns or raises (ret), with the opcodes it
\* got from the matcher, the assignments it made, and whether it fell back
\* on deep hashes
RequireSequence(data, sequence) ==
    LET data_type == DataTypeOf(data)
        items == ItemsOf(data)
        expected == sequence.v
        fallback == \E j \in 1..Len(expected) : ~IsHashable(expected[j])
        a == IF fallback THEN [i \in 1..Len(items) |-> DeepHashTree(items[i])] ELSE items
        b == IF fallback THEN [j \in 1..Len(expected) |-> DeepHashTree(expected[j])]
             ELSE expected
        opcodes == GetOpcodes(a, b)
        writes == DiffWrites(items, expected, opcodes, 1)
        nothing == [ret |-> None, opcodes |-> <<>>, writes |-> <<>>, fallback |-> FALSE,
                    msg |-> <<>>]
    IN  IF IsBaseElementType(data_type) \/ ~IsSequenceType(data_type)
        THEN [nothing EXCEPT !.ret = Raise("ValueError"),
                             !.msg = SequenceOrderMessage(data_type)]
        ELSE IF ~fallback /\ \E i \in 1..Len(items) : ~IsHashable(items[i])
        THEN \* the matcher looks a[i] up in a dictionary: get_opcodes() raises
             [nothing EXCEPT !.ret = Raise("TypeError")]
        ELSE [ret |-> IF writes = <<>> THEN None ELSE Dict(DictOfWrites(writes)),
              opcodes |-> opcodes, writes |-> writes, fallback |-> fallback,
              msg |-> <<>>]

(***************************************************************************)
(* _require_callable                                                       *)
(*                                                                         *)
(* A predicate is a value Function(name, table): table[element] is what    *)
(* calling it on the element gives, a returned value or Raise(...).        *)
(***************************************************************************)
PyBool(b) == [t |-> "bool", v |-> b]
Function(name, table) == [t |-> "function", v |-> <<name, table>>]

\* a generator: the items it yields when it is consumed, and how the
\* consumption ends ("StopIteration", or the exception it raises)
Generator(items, end) == [t |-> "generator", v |-> <<items, end>>]

\* isinstance(returned_value, BaseDifference)
IsDifference(obj) == obj.t \in {"Extra", "Missing", "Invalid", "Deviation"}

\* returned_value == True, returned_value == False
EqualsTrue(obj) == (obj.t = "bool" /\ obj.v) \/ (obj.t = "int" /\ obj.v = 1)
EqualsFalse(obj) == (obj.t = "bool" /\ ~obj.v) \/ (obj.t = "int" /\ obj.v = 0)

\* wrapped() with no try around the call: what the predicate raises is
\* raised by wrapped
Wrapped_NoTry(element, function) ==
    LET returned_value == function.v[2][element]
    IN  IF returned_value.t = "raise" THEN returned_value
        ELSE IF EqualsTrue(returned_value) THEN None
        ELSE IF EqualsFalse(returned_value) THEN Invalid(element, None)
        ELSE IF IsDifference(returned_value) THEN returned_value
        ELSE Raise("TypeError")

\* wrapped() with any value that is not True taken as False
Wrapped_OtherIsFalse(element, function) ==
    LET called == function.v[2][element]
        returned_value == IF called.t = "raise" THEN PyBool(FALSE) ELSE called
    IN  IF EqualsTrue(returned_value) THEN None
        ELSE IF IsDifference(returned_value) THEN returned_value
        ELSE Invalid(element, None)

\* lines 137-158, wrapped(element): None, a difference, or Raise("TypeError")
Wrapped(element, function) ==
    LET called == function.v[2][element]
        returned_value == IF called.t = "raise" THEN PyBool(FALSE) ELSE called
    IN  IF EqualsTrue(returned_value) THEN None
        ELSE IF EqualsFalse(returned_value) THEN Invalid(element, None)
        ELSE IF IsDifference(returned_value) THEN returned_value
        ELSE Raise("TypeError")

\* lines 163-164 consumed from item k on: the differences found until the
\* items end or wrapped() raises
RECURSIVE ConsumeDiffs(_, _, _)
ConsumeDiffs(results, k, yielded) ==
    IF k > Len(results) THEN Generator(yielded, "StopIteration")
    ELSE IF results[k].t = "raise" THEN Generator(yielded, results[k].v)
    ELSE IF results[k] # None THEN ConsumeDiffs(results, k + 1, Append(yielded, results[k]))
    ELSE ConsumeDiffs(results, k + 1, yielded)

\* lines 165-168 (and 191-194): next(diffs, None) runs the generator up to
\* its first difference, and raises what the generator raises before it;
\* the rest is consumed by the caller
PeekFirst(results) ==
    LET all == ConsumeDiffs(results, 1, <<>>)
    IN  IF all.v[1] = <<>>
        THEN IF all.v[2] = "StopIteration" THEN None ELSE Raise(all.v[2])
        ELSE all

RequireCallable(data, function) ==
    IF data = NOTFOUND THEN Invalid(None, None)
    ELSE IF IsBaseElement(data) THEN Wrapped(data, function)
    ELSE PeekFirst([k \in 1..Len(ItemsOf(data)) |-> Wrapped(ItemsOf(data)[k], function)])

(***************************************************************************)
(* _require_regex, _require_equality, _require_single_equality             *)
(***************************************************************************)
PyStr(chars) == [t |-> "str", v |-> chars]
Regex(pattern) == [t |-> "regex", v |-> pattern]
PySet(members) == [t |-> "set", v |-> members]

\* regex.search(element) is not None, for a pattern with no special
\* character and a string as long as the pattern; search() of anything
\* that is not a string raises TypeError
SearchIsNotNone(regex, element) ==
    IF element.t = "str" THEN PyBool(regex.v = element.v) ELSE Raise("TypeError")

\* lines 171-174
RequireRegex(data, regex) ==
    LET elements == IF data = NOTFOUND THEN {}
                    ELSE IF IsBaseElement(data) THEN {data} ELSE Range(ItemsOf(data))
        func == Function("<lambda>", [e \in elements |-> SearchIsNotNone(regex, e)])
    IN  RequireCallable(data, func)

Deviation(difference, expected) ==
    [t |-> "Deviation", v |-> <<PyInt(difference), expected>>]

\* errors._make_difference: a Deviation between numbers, a number taken
\* for zero where one side is absent, and otherwise an Invalid, with the
\* expected value when show_expected
MakeDifference(actual, expected, show_expected) ==
    IF actual.t = "int" /\ expected.t = "int"
    THEN Deviation(actual.v - expected.v, expected)
    ELSE IF actual = NOTFOUND /\ expected.t = "int"
    THEN Deviation(0 - expected.v, expected)
    ELSE IF actual.t = "int" /\ expected = NOTFOUND
    THEN Deviation(actual.v, None)
    ELSE IF show_expected THEN Invalid(actual, expected) ELSE Invalid(actual, None)

\* an object of a class of the caller's whose __eq__ answers True for every
\* operand ("always"), False for every operand ("never"), or raises
Custom(eq) == [t |-> "custom", v |-> eq]

\* what a __eq__ of the caller's gives
CustomEq(obj) ==
    CASE obj.v = "always" -> "True"
      [] obj.v = "never" -> "False"
      [] OTHER -> "raise"

\* other == element: "True", "False", or "raise" when the __eq__ that
\* decides raises.  The left operand's __eq__ decides; a built-in left
\* operand returns NotImplemented for an object of the caller's, and then
\* the reflected __eq__ of the right operand decides.
PyEquals(other, element) ==
    IF other.t = "custom" THEN CustomEq(other)
    ELSE IF element.t = "custom" THEN CustomEq(element)
    ELSE IF other = element THEN "True" ELSE "False"

\* lines 181-187 with the operands of the test exchanged
EqualityFunc_ElementEquality(element, other) ==
    IF PyEquals(element, other) = "True" THEN None
    ELSE MakeDifference(element, other, FALSE)

\* lines 181-187
EqualityFunc(element, other) ==
    IF PyEquals(other, element) = "True" THEN None
    ELSE MakeDifference(element, other, FALSE)

\* lines 177-194 with the chain of line 194 returned whatever was found
RequireEquality_AlwaysChain(data, other) ==
    IF data = NOTFOUND THEN MakeDifference(data, other, FALSE)
    ELSE IF data.t \notin {"list", "DataResult"} THEN Raise("TypeError")
    ELSE ConsumeDiffs([k \in 1..Len(ItemsOf(data)) |-> EqualityFunc(ItemsOf(data)[k], other)],
                      1, <<>>)

\* lines 177-194
RequireEquality(data, other) ==
    IF data = NOTFOUND THEN MakeDifference(data, other, FALSE)
    ELSE IF data.t \notin {"list", "DataResult"} THEN Raise("TypeError")
    ELSE PeekFirst([k \in 1..Len(ItemsOf(data)) |-> EqualityFunc(ItemsOf(data)[k], other)])

\* lines 197-203
RequireSingleEquality(data, other) ==
    IF PyEquals(other, data) = "True" THEN None
    ELSE MakeDifference(data, other, TRUE)

(***************************************************************************)
(* _get_msg_and_func                                                       *)
(*                                                                         *)
(* Instance(abcs, items) is an object of a class of the caller's: abcs are *)
(* the tests among Sequence, Set, callable and Mapping that it passes, and *)
(* items are its items when it is read as a mapping.                       *)
(***************************************************************************)
Instance(abcs, items) == [t |-> "instance", v |-> <<abcs, items>>]

IsSequence(obj) ==
    obj.t \in {"list", "tuple", "str"} \/ (obj.t = "instance" /\ "Sequence" \in obj.v[1])
IsSet(obj) ==
    obj.t \in {"set", "frozenset"} \/ (obj.t = "instance" /\ "Set" \in obj.v[1])
IsCallable(obj) ==
    obj.t \in {"function", "type"} \/ (obj.t = "instance" /\ "callable" \in obj.v[1])
IsMapping(obj) ==
    obj.t = "dict" \/ (obj.t = "instance" /\ "Mapping" \in obj.v[1])

\* the items of a mapping
MappingItems(obj) == IF obj.t = "instance" THEN obj.v[2] ELSE obj.v

\* _get_msg_and_func with the test for sets ahead of the one for sequences
GetMsgAndFunc_SetFirst(data, requirement) ==
    IF IsSet(requirement)
    THEN [msg |-> "does not satisfy set membership", func |-> "_require_set"]
    ELSE IF requirement.t # "str" /\ IsSequence(requirement)
    THEN [msg |-> "does not match sequence order", func |-> "_require_sequence"]
    ELSE IF IsCallable(requirement)
    THEN [msg |-> "does not satisfy condition", func |-> "_require_callable"]
    ELSE IF requirement.t = "regex"
    THEN [msg |-> "does not satisfy regex", func |-> "_require_regex"]
    ELSE IF IsBaseElement(data)
    THEN [msg |-> "does not satisfy equality comparison",
          func |-> "_require_single_equality"]
    ELSE [msg |-> "does not equal", func |-> "_require_equality"]

\* lines 206-234: the default message (without the name it is formatted
\* with) and the comparator
GetMsgAndFunc(data, requirement) ==
    IF requirement.t # "str" /\ IsSequence(requirement)
    THEN [msg |-> "does not match sequence order", func |-> "_require_sequence"]
    ELSE IF IsSet(requirement)
    THEN [msg |-> "does not satisfy set membership", func |-> "_require_set"]
    ELSE IF IsCallable(requirement)
    THEN [msg |-> "does not satisfy condition", func |-> "_require_callable"]
    ELSE IF requirement.t = "regex"
    THEN [msg |-> "does not satisfy regex", func |-> "_require_regex"]
    ELSE IF IsBaseElement(data)
    THEN [msg |-> "does not satisfy equality comparison",
          func |-> "_require_single_equality"]
    ELSE [msg |-> "does not equal", func |-> "_require_equality"]

\* require_func(data, requirement)
ApplyFunc(func, data, requirement) ==
    CASE func = "_require_sequence" -> RequireSequence(data, requirement).ret
      [] func = "_require_set" -> RequireSet(data, requirement.v)
      [] func = "_require_callable" -> RequireCallable(data, requirement)
      [] func = "_require_regex" -> RequireRegex(data, requirement)
      [] func = "_require_single_equality" -> RequireSingleEquality(data, requirement)
      [] func = "_require_equality" -> RequireEquality(data, requirement)

(***************************************************************************)
(* _apply_mapping_requirement                                              *)
(***************************************************************************)
\* an iterable of key-value items: the items, and how iterating it ends
DictItems(items, end) == [t |-> "DictItems", v |-> <<items, end>>]

\* mapping.get(key, NOTFOUND)
MappingGet(mapping, key) ==
    LET items == MappingItems(mapping)
        at == {n \in 1..Len(items) : items[n][1] = key}
    IN  IF at = {} THEN NOTFOUND ELSE items[CHOOSE n \in at : TRUE][2]

\* if diff: a difference, a generator and a dict that is not empty are true
IsTrue(obj) == obj # None /\ ~(obj.t = "dict" /\ obj.v = <<>>)

\* list(diff): of a generator, its items or the exception it raises; of
\* chain(missing, extra), the items in the order the two sets give them
ListOf(diff) ==
    IF diff.t = "generator"
    THEN IF diff.v[2] = "StopIteration" THEN List(diff.v[1]) ELSE Raise(diff.v[2])
    ELSE IF diff.t = "iter" THEN [t |-> "list_in_set_order", v |-> diff.v]
    ELSE Raise("TypeError")

\* lines 253-254, 262-263
DiffOrList(diff) == IF IsBaseElement(diff) THEN diff ELSE ListOf(diff)

\* the state of the generator: what it has yielded, whether it has raised,
\* the keys seen in data, the local variable actual once it is bound, and
\* the comparator chosen for each key
MappingStart ==
    [yielded |-> <<>>, end |-> "StopIteration", data_keys |-> {},
     actual |-> <<>>, selected |-> <<>>]

\* lines 247-255: one turn of the loop over data's items
MappingDataStep(item, mapping, st) ==
    LET key == item[1]
        actual == item[2]
        expected == MappingGet(mapping, key)
        func == GetMsgAndFunc(actual, expected).func
        bound == [st EXCEPT !.data_keys = @ \cup {key},
                            !.actual = <<actual>>,
                            !.selected = Append(@, [key |-> key, func |-> func])]
    IN  CHOOSE next \in
            {IF diff.t = "raise" THEN [bound EXCEPT !.end = diff.v]
             ELSE IF ~IsTrue(diff) THEN bound
             ELSE CHOOSE yield \in
                     {IF kept.t = "raise" THEN [bound EXCEPT !.end = kept.v]
                      ELSE [bound EXCEPT !.yielded = Append(@, <<key, kept>>)] :
                         kept \in {DiffOrList(diff)}} : TRUE :
                diff \in {ApplyFunc(func, actual, expected)}} : TRUE

\* lines 246-255: the loop over data's items, from item n on; st is the
\* state the turns before have left
RECURSIVE MappingDataLoop(_, _, _, _)
MappingDataLoop(data_items, mapping, n, st) ==
    IF n > Len(data_items) \/ st.end # "StopIteration" THEN st
    ELSE CHOOSE last \in
            {MappingDataLoop(data_items, mapping, n + 1, next) :
                next \in {MappingDataStep(data_items[n], mapping, st)}} : TRUE

\* lines 259-264: one turn of the loop over the requirement's items.  The
\* comparator is chosen by the variable actual, which the first loop left:
\* reading it when data had no item raises UnboundLocalError
MappingRequirementStep(item, st) ==
    LET key == item[1]
        expected == item[2]
    IN  IF key \in st.data_keys THEN st
        ELSE IF st.actual = <<>> THEN [st EXCEPT !.end = "UnboundLocalError"]
        ELSE LET func == GetMsgAndFunc(st.actual[1], expected).func
                 chosen == [st EXCEPT !.selected =
                               Append(@, [key |-> key, func |-> func])]
             IN  CHOOSE next \in
                    {IF diff.t = "raise" THEN [chosen EXCEPT !.end = diff.v]
                     ELSE CHOOSE yield \in
                             {IF kept.t = "raise" THEN [chosen EXCEPT !.end = kept.v]
                              ELSE [chosen EXCEPT !.yielded = Append(@, <<key, kept>>)] :
                                 kept \in {DiffOrList(diff)}} : TRUE :
                        diff \in {ApplyFunc(func, NOTFOUND, expected)}} : TRUE

\* lines 257-264: the loop over the requirement's items, from item n on
RECURSIVE MappingRequirementLoop(_, _, _)
MappingRequirementLoop(mapping_items, n, st) ==
    IF n > Len(mapping_items) \/ st.end # "StopIteration" THEN st
    ELSE CHOOSE last \in
            {MappingRequirementLoop(mapping_items, n + 1, next) :
                next \in {MappingRequirementStep(mapping_items[n], st)}} : TRUE

\* lines 237-264: the generator consumed to its end, or to what it raises
ApplyMappingRequirement(data, mapping) ==
    IF ~IsMapping(data) /\ data.t # "DictItems"
    THEN [MappingStart EXCEPT !.end = "TypeError"]
    ELSE LET data_items == IF data.t = "DictItems" THEN data.v[1] ELSE MappingItems(data)
         IN  CHOOSE last \in
                {MappingRequirementLoop(MappingItems(mapping), 1, st) :
                    st \in {MappingDataLoop(data_items, mapping, 1, MappingStart)}} : TRUE

(***************************************************************************)
(* _normalize_mapping_result, _get_difference_info                         *)
(***************************************************************************)
\* lines 267-275: next(result, None) runs the generator to its first item,
\* and raises what the generator raises before it
NormalizeMappingResult(result) ==
    IF result.v[1] = <<>>
    THEN IF result.v[2] = "StopIteration" THEN None ELSE Raise(result.v[2])
    ELSE DictItems(result.v[1], result.v[2])

\* lines 288-289: a group's result is kept when it is true, as a list
\* unless it is a single difference
KeptOf(diff) ==
    IF diff.t = "raise" \/ ~IsTrue(diff) THEN diff ELSE DiffOrList(diff)

\* lines 286-289 with the comparator selected again for each value
RECURSIVE PerKeyDiffs_PerValue(_, _, _, _, _)
PerKeyDiffs_PerValue(items, func, requirement, n, yielded) ==
    IF n > Len(items) THEN Generator(yielded, "StopIteration")
    ELSE CHOOSE rest \in
            {IF kept.t = "raise" THEN Generator(yielded, kept.v)
             ELSE PerKeyDiffs_PerValue(items, func, requirement, n + 1,
                              IF IsTrue(kept) THEN Append(yielded, <<items[n][1], kept>>)
                              ELSE yielded) :
                kept \in {KeptOf(ApplyFunc(GetMsgAndFunc(items[n][2], requirement).func,
                                           items[n][2], requirement))}} : TRUE

\* lines 286-289: the generator over data's items, from item n on
RECURSIVE PerKeyDiffs(_, _, _, _, _)
PerKeyDiffs(items, func, requirement, n, yielded) ==
    IF n > Len(items) THEN Generator(yielded, "StopIteration")
    ELSE CHOOSE rest \in
            {IF kept.t = "raise" THEN Generator(yielded, kept.v)
             ELSE PerKeyDiffs(items, func, requirement, n + 1,
                              IF IsTrue(kept) THEN Append(yielded, <<items[n][1], kept>>)
                              ELSE yielded) :
                kept \in {KeptOf(ApplyFunc(func, items[n][2], requirement))}} : TRUE

\* lines 294-295
ListOfDifference(diffs) == IF IsDifference(diffs) THEN List(<<diffs>>) ELSE diffs

\* lines 297-299: what is returned or raised (ret), with the comparator the
\* requirement selected (top)
DifferenceInfo(default_msg, diffs, top) ==
    [ret |-> IF diffs.t = "raise" THEN diffs
             ELSE IF ~IsTrue(diffs) THEN None
             ELSE Tuple(<<PyStr(default_msg), diffs>>),
     top |-> top,
     selected |-> <<>>]

\* lines 281-283: r is the generator of _apply_mapping_requirement, as
\* consumed; selected are the comparators it selected for the keys
MappingInfo(r) ==
    [DifferenceInfo("does not satisfy mapping requirement",
                    NormalizeMappingResult(Generator(r.yielded, r.end)),
                    "_apply_mapping_requirement")
        EXCEPT !.selected = r.selected]

\* lines 284-295: mf is what _get_msg_and_func returned
ElementInfo(mf, data, requirement) ==
    DifferenceInfo(mf.msg,
                   IF IsMapping(data)
                   THEN NormalizeMappingResult(
                            PerKeyDiffs(MappingItems(data), mf.func, requirement, 1, <<>>))
                   ELSE ListOfDifference(ApplyFunc(mf.func, data, requirement)),
                   mf.func)

\* lines 278-299
GetDifferenceInfo(data, requirement) ==
    IF IsMapping(requirement)
    THEN MappingInfo(ApplyMappingRequirement(data, requirement))
    ELSE ElementInfo(GetMsgAndFunc(data, requirement), data, requirement)

(***************************************************************************)
(* The calls.                                                              *)
(***************************************************************************)
SetData == {List(s) : s \in SeqsUpTo(Scalars, MaxLen)} \cup Scalars \cup {NOTFOUND}

\* the elements of the sequences compared: three ints, two of them with the
\* same hash, and an empty list, which is not hashable
SequenceElements == {PyInt(1), PyInt(-1), PyInt(-2), List(<<>>)}

SequenceRequirements == {List(s) : s \in SeqsUpTo(SequenceElements, MaxSeqTotal)}

SequenceData ==
    SequenceRequirements
    \cup {DataResult(et, s) : et \in {"list", "tuple", "str", "set", "int"},
                              s \in SeqsUpTo(SequenceElements, 1)}
    \cup {PyInt(1), PyStr("a"), NOTFOUND}

\* a difference a predicate may return itself
ReturnedDifference == [t |-> "Deviation", v |-> <<PyInt(1), PyInt(2)>>]

\* what a predicate may give for an element: True, False, a difference, a
\* value that is none of these, or an exception
PredicateOutcomes ==
    {PyBool(TRUE), PyBool(FALSE), ReturnedDifference, PyInt(5), Raise("Exception")}

Predicates == {Function("f", table) : table \in [Scalars -> PredicateOutcomes]}

CallRequireCallable ==
    /\ fn = "idle"
    /\ \E data \in SetData, function \in Predicates :
          /\ fn' = "_require_callable"
          /\ arg' = [data |-> data, function |-> function]
          /\ ret' = RequireCallable(data, function)
          /\ loc' = <<>>

\* the predicate of the mapping requirements: whether the element is 1
IsOne == Function("is_one", [e \in Scalars \cup {PyStr("a")} |-> PyBool(e = PyInt(1))])

MapKeys == {"a", "b"}

\* the requirements that a mapping requirement gives its keys: a scalar, an
\* empty set and a set, a predicate, a pattern, a sequence and a mapping
KeyRequirements ==
    {PyInt(1), PySet({}), PySet({PyInt(1)}), IsOne, Regex("a"),
     List(<<PyInt(1)>>), Dict(<<<<"a", PyInt(1)>>>>)}

\* the values that data gives its keys: elements and collections
KeyValues == {PyInt(1), PyStr("a"), List(<<PyInt(1)>>), List(<<>>)}

\* sequences of at most n items with keys that differ
ItemsWithKeys(values, n) ==
    {items \in SeqsUpTo(MapKeys \X values, n) :
        \A i, j \in 1..Len(items) : i # j => items[i][1] # items[j][1]}

MappingRequirements == {Dict(items) : items \in ItemsWithKeys(KeyRequirements, MaxItems)}

\* data grouped by key: a dict, or an iterable of items, in which a key
\* may come twice; and data that is neither
MappingData ==
    {Dict(items) : items \in ItemsWithKeys(KeyValues, MaxItems)}
    \cup {DictItems(items, "StopIteration") :
            items \in SeqsUpTo(MapKeys \X KeyValues, MaxItems)
                      \ ItemsWithKeys(KeyValues, MaxItems)}
    \cup {List(<<PyInt(1)>>)}

CallApplyMappingRequirement ==
    /\ fn = "idle"
    /\ \E data \in MappingData, mapping \in MappingRequirements :
          \E r \in {ApplyMappingRequirement(data, mapping)} :
              /\ fn' = "_apply_mapping_requirement"
              /\ arg' = [data |-> data, mapping |-> mapping]
              /\ ret' = Generator(r.yielded, r.end)
              /\ loc' = [top |-> "_apply_mapping_requirement", selected |-> r.selected]

\* objects of the caller's classes, by the tests they pass
Instances == {Instance(abcs, <<>>) : abcs \in SUBSET {"Sequence", "Set", "callable", "Mapping"}}

CallGetMsgAndFunc ==
    /\ fn = "idle"
    /\ \E data \in {PyInt(1), List(<<PyInt(1)>>)},
          requirement \in KeyRequirements \cup Instances \cup {PyStr("a"), NOTFOUND} :
          LET mf == GetMsgAndFunc(data, requirement)
          IN  /\ fn' = "_get_msg_and_func"
              /\ arg' = [data |-> data, requirement |-> requirement]
              /\ ret' = Tuple(<<PyStr(mf.msg), Function(mf.func, <<>>)>>)
              /\ loc' = [top |-> mf.func, selected |-> <<>>]

\* a mapping that can also be called, or indexed as a sequence
MappingInstances ==
    {Instance(abcs \cup {"Mapping"}, items) :
        abcs \in SUBSET {"Sequence", "callable"},
        items \in ItemsWithKeys({PyInt(1)}, 1)}

InfoData == KeyValues \cup {d \in MappingData : d.t # "list"}

InfoRequirements == KeyRequirements \cup MappingRequirements \cup MappingInstances

\* the items of a value that groups by key, none for any other
GroupSize(obj) ==
    IF obj.t = "DictItems" THEN Len(obj.v[1])
    ELSE IF IsMapping(obj) THEN Len(MappingItems(obj)) ELSE 0

CallGetDifferenceInfo ==
    /\ fn = "idle"
    /\ \E data \in InfoData, requirement \in InfoRequirements :
          /\ GroupSize(data) + GroupSize(requirement) <= MaxItems
          /\ data.t = "DictItems" => IsMapping(requirement)
          /\ \E r \in {GetDifferenceInfo(data, requirement)} :
                 /\ fn' = "_get_difference_info"
                 /\ arg' = [data |-> data, requirement |-> requirement]
                 /\ ret' = r.ret
                 /\ loc' = [top |-> r.top, selected |-> r.selected]

(***************************************************************************)
(* ResultSet.compare (datatest.sourceresult), as the specification and the *)
(* tests of test_sourceresult.py describe it.  The returned list is built  *)
(* from sets, so it is kept as a bag of differences.                       *)
(***************************************************************************)
NotProperSubset == [t |-> "NotProperSubset", v |-> <<>>]
NotProperSuperset == [t |-> "NotProperSuperset", v |-> <<>>]

\* a list built by iterating sets
ListInSetOrder(bag) == [t |-> "list_in_set_order", v |-> bag]

SetOperators == {"==", "<=", "<", ">=", ">"}

\* the Extra part of the result: for ==, <= and <
ResultSetExtra(self, other, op) ==
    IF op \notin {"==", "<=", "<"} THEN EmptyBag
    ELSE IF op = "<" /\ self = other THEN SetToBag({NotProperSubset})
    ELSE SetToBag({Extra(x) : x \in self \ other})

\* the Missing part of the result: for ==, >= and >
ResultSetMissing(self, other, op) ==
    IF op \notin {"==", ">=", ">"} THEN EmptyBag
    ELSE IF op = ">" /\ self = other THEN SetToBag({NotProperSuperset})
    ELSE SetToBag({Missing(x) : x \in other \ self})

\* compare() with the strict operators taken for the non-strict ones
ResultSetCompare_NonStrict(self, other, op) ==
    ListInSetOrder(ResultSetExtra(self, other, IF op = "<" THEN "<=" ELSE op)
                      (+) ResultSetMissing(self, other, IF op = ">" THEN ">=" ELSE op))

ResultSetCompare(self, other, op) ==
    ListInSetOrder(ResultSetExtra(self, other, op) (+) ResultSetMissing(self, other, op))

\* TestResultSet.test_compare: sets of elements compared under each operator
CallResultSetCompare ==
    /\ fn = "idle"
    /\ \E self \in SUBSET Scalars, other \in SUBSET Scalars, op \in SetOperators :
          /\ fn' = "ResultSet.compare"
          /\ arg' = [self |-> self, other |-> other, op |-> op]
          /\ ret' = ResultSetCompare(self, other, op)
          /\ loc' = <<>>

(***************************************************************************)
(* ResultMapping.compare (datatest.sourceresult), as the specification and *)
(* the tests of test_sourceresult.py describe it: each key of either side  *)
(* is compared as a single element, an absent cell being NOTFOUND, and     *)
(* the difference of a key carries the key as a keyword under key_names.   *)
(***************************************************************************)
\* a difference with keywords: Deviation(-1, 2, foo='b')
WithKwds(diff, key_names, key) == [t |-> diff.t, v |-> Append(diff.v, <<key_names, key>>)]

KeysOf(items) == {items[n][1] : n \in 1..Len(items)}

\* the difference of one key with the sides exchanged
ResultMappingCell_Exchanged(self, other, key_names, key) ==
    LET diff == RequireSingleEquality(MappingGet(other, key), MappingGet(self, key))
    IN  IF diff = None THEN None ELSE WithKwds(diff, key_names, key)

\* the difference of one key, or None
ResultMappingCell(self, other, key_names, key) ==
    LET diff == RequireSingleEquality(MappingGet(self, key), MappingGet(other, key))
    IN  IF diff = None THEN None ELSE WithKwds(diff, key_names, key)

ResultMappingCompare(self, other, key_names) ==
    ListInSetOrder(SetToBag({ResultMappingCell(self, other, key_names, key) :
                                key \in KeysOf(self.v) \cup KeysOf(other.v)} \ {None}))

\* numeric cells, zero among them
MaxCell == 2
NumberCells == {PyInt(n) : n \in 0..MaxCell}

\* TestResultMapping.test_compare_numbers: mappings of numbers, a key of
\* either possibly absent from the other
CallResultMappingCompare ==
    /\ fn = "idle"
    /\ \E self \in ItemsWithKeys(NumberCells, MaxItems),
          other \in ItemsWithKeys(NumberCells, MaxItems) :
          /\ fn' = "ResultMapping.compare"
          /\ arg' = [self |-> Dict(self), other |-> Dict(other), key_names |-> "foo"]
          /\ ret' = ResultMappingCompare(Dict(self), Dict(other), "foo")
          /\ loc' = <<>>

\* values compared for equality: numbers, a string, and objects of the
\* caller's with an __eq__ of their own
EqualityValues ==
    {PyInt(1), PyInt(2), PyStr("a")} \cup {Custom(eq) : eq \in {"always", "never", "raises"}}

EqualityData ==
    EqualityValues \cup {NOTFOUND} \cup {List(s) : s \in SeqsUpTo(EqualityValues, MaxLen)}

\* lines 232-234 and the call of the comparator they select
CallEquality ==
    /\ fn = "idle"
    /\ \E data \in EqualityData, other \in EqualityValues :
          \E mf \in {GetMsgAndFunc(data, other)} :
              /\ fn' = mf.func
              /\ arg' = [data |-> data, other |-> other]
              /\ ret' = ApplyFunc(mf.func, data, other)
              /\ loc' = [top |-> mf.func, selected |-> <<>>]

CallRequireSet ==
    /\ fn = "idle"
    /\ \E data \in SetData, requirement_set \in SUBSET Scalars :
          /\ fn' = "_require_set"
          /\ arg' = [data |-> data, requirement_set |-> requirement_set]
          /\ ret' = RequireSet(data, requirement_set)
          /\ loc' = <<>>

CallRequireSequence ==
    /\ fn = "idle"
    /\ \E data \in SequenceData, sequence \in SequenceRequirements :
          /\ (IF data.t = "list" THEN Len(data.v) ELSE MaxSeqTotal - 1) + Len(sequence.v)
                <= MaxSeqTotal
          /\ LET r == RequireSequence(data, sequence)
             IN  /\ fn' = "_require_sequence"
                 /\ arg' = [data |-> data, sequence |-> sequence]
                 /\ ret' = r.ret
                 /\ loc' = [opcodes |-> r.opcodes, writes |-> r.writes,
                            fallback |-> r.fallback, msg |-> r.msg]

Return ==
    /\ fn # "idle"
    /\ fn' = "idle"
    /\ arg' = <<>>
    /\ ret' = None
    /\ loc' = <<>>

Init ==
    /\ fn = "idle"
    /\ arg = <<>>
    /\ ret = None
    /\ loc = <<>>

Next ==
    \/ CallRequireSet
    \/ CallRequireSequence
    \/ CallApplyMappingRequirement
    \/ CallGetMsgAndFunc
    \/ CallGetDifferenceInfo
    \/ CallEquality
    \/ CallResultSetCompare
    \/ CallResultMappingCompare
    \/ CallRequireCallable
    \/ Return

Spec == Init /\ [][Next]_vars

(***************************************************************************)
(* _deephash(obj), step by step.  The objects that obj can reach are a     *)
(* heap: object o has a class and items, and an item is a reference to an  *)
(* object of the heap or a hashable element.  heap[o].cls is "list",       *)
(* "tuple", "Set" (an instance of collections.Set), "Mapping" (an instance *)
(* of collections.Mapping, its items being the values of keys 1, 2, ...)   *)
(* or "other": unhashable and none of these.                               *)
(***************************************************************************)
\* objects of a heap
NObj == 2
\* most items of the objects of a heap, taken together
MaxEdges == 2
\* the places at which one call may find its first token allocated
NumBases == 2

ObjIds == 1..NObj
Ref(o) == [t |-> "ref", v |-> o]
Token(address) == [t |-> "object", v |-> address]
FrozenSet(members) == [t |-> "frozenset", v |-> members]

Containers == {"list", "tuple", "Set", "Mapping"}
HeapItems == {Ref(o) : o \in ObjIds} \cup {PyInt(1)}
Shapes ==
    {[cls |-> c, items |-> s] : c \in Containers, s \in SeqsUpTo(HeapItems, MaxEdges)}
    \cup {[cls |-> "other", items |-> <<>>]}

RefsOf(shape) == {x.v : x \in {y \in Range(shape.items) : y.t = "ref"}}

\* the objects that o reaches in at least one step
RECURSIVE ReachIn(_, _, _)
ReachIn(heap, from, k) ==
    IF k = 0 THEN from
    ELSE ReachIn(heap, from \cup UNION {RefsOf(heap[o]) : o \in from}, k - 1)

Reaches(heap, o) == ReachIn(heap, RefsOf(heap[o]), NObj)
Cyclic(heap) == \E o \in ObjIds : o \in Reaches(heap, o)

ShapesOfLen(k) == {shape \in Shapes : Len(shape.items) = k}

\* n objects that hold at most budget items in all
RECURSIVE ObjectsUpTo(_, _)
ObjectsUpTo(n, budget) ==
    IF n = 0 THEN {<<>>}
    ELSE UNION {{Append(objects, shape) :
                    objects \in ObjectsUpTo(n - 1, budget - k),
                    shape \in ShapesOfLen(k)} : k \in 0..budget}

\* A tuple is built after its items and never changes: it holds no tuple
\* older than itself (objects are numbered youngest first).  An object that
\* object 1 does not reach is left out: it stands as an unused "other".
WellFormed(heap) ==
    /\ \A o \in ObjIds :
          heap[o].cls = "tuple" =>
             \A p \in RefsOf(heap[o]) : heap[p].cls = "tuple" => p > o
    /\ \A o \in ObjIds \ ({1} \cup Reaches(heap, 1)) :
          heap[o] = [cls |-> "other", items |-> <<>>]

\* hash(obj) does not raise: an element, or a tuple of such values
RECURSIVE HeapHashable(_, _)
HeapHashable(heap, obj) ==
    IF obj.t # "ref" THEN IsHashable(obj)
    ELSE /\ heap[obj.v].cls = "tuple"
         /\ \A i \in 1..Len(heap[obj.v].items) : HeapHashable(heap, heap[obj.v].items[i])

\* the value of an object when no object is reached twice on the way
RECURSIVE TreeOf(_, _)
TreeOf(heap, obj) ==
    IF obj.t # "ref" THEN obj
    ELSE [t |-> heap[obj.v].cls,
          v |-> [i \in 1..Len(heap[obj.v].items) |-> TreeOf(heap, heap[obj.v].items[i])]]

\* id(token) of the n-th object() of a call; hash(token) is derived from it
TokenAddress(base, n) == base * NObj + n

\* line 26, and the position before the call of line 56
DeepHashStart(obj, base, prev) ==
    [pc |-> "call", val |-> obj, stack |-> <<>>,
     already_seen |-> [o \in ObjIds |-> 0],
     expanded |-> [o \in ObjIds |-> 0],
     base |-> base, steps |-> 0, prev |-> prev]

\* lines 29-37 without the test of line 34: every object met is expanded
HashableProxyEnter_NoGuard(heap, st) ==
    LET obj == st.val
    IN  IF obj.t # "ref" \/ heap[obj.v].cls \notin Containers
        THEN [st EXCEPT !.pc = IF obj.t # "ref" THEN "ret" ELSE "raised"]
        ELSE [st EXCEPT !.pc = "iter",
                        !.expanded[obj.v] = @ + 1,
                        !.steps = @ + 1,
                        !.stack = Append(@, [obj |-> obj.v, i |-> 0, acc |-> <<>>])]

\* lines 29-37, and the choice of the branch of lines 40-50
HashableProxyEnter(heap, st) ==
    LET obj == st.val
        seen == {o \in ObjIds : st.already_seen[o] # 0}
    IN  IF obj.t # "ref"
        THEN [st EXCEPT !.pc = "ret", !.steps = @ + 1]
        ELSE IF st.already_seen[obj.v] # 0
        THEN [st EXCEPT !.pc = "ret", !.steps = @ + 1,
                        !.val = Token(st.already_seen[obj.v])]
        ELSE LET marked ==
                     [st EXCEPT !.steps = @ + 1,
                                !.already_seen[obj.v] =
                                    TokenAddress(st.base, Cardinality(seen) + 1)]
             IN  IF heap[obj.v].cls \in Containers
                 THEN [marked EXCEPT
                          !.pc = "iter",
                          !.expanded[obj.v] = @ + 1,
                          !.stack = Append(@, [obj |-> obj.v, i |-> 0, acc |-> <<>>])]
                 ELSE [marked EXCEPT !.pc = "raised"]

\* the generator expression of line 41, 43 or 46 takes the next item
HashableProxyIterate(heap, st) ==
    LET top == st.stack[Len(st.stack)]
    IN  [st EXCEPT !.pc = "call", !.steps = @ + 1,
                   !.val = heap[top.obj].items[top.i + 1]]

\* the inner call returns into the generator expression
HashableProxyYield(st) ==
    LET n == Len(st.stack)
    IN  [st EXCEPT !.pc = "iter", !.steps = @ + 1,
                   !.stack[n].i = @ + 1,
                   !.stack[n].acc = Append(@, st.val)]

\* lines 41, 43 and 47: the proxy of the items; line 51: with the class
HashableProxyBuild(heap, st) ==
    LET n == Len(st.stack)
        top == st.stack[n]
        cls == heap[top.obj].cls
        proxy == CASE cls \in {"list", "tuple"} -> Tuple(top.acc)
                   [] cls = "Set" -> FrozenSet(Range(top.acc))
                   [] cls = "Mapping" ->
                         FrozenSet({Tuple(<<PyInt(k), top.acc[k]>>) :
                                       k \in 1..Len(top.acc)})
    IN  [st EXCEPT !.pc = "ret", !.steps = @ + 1,
                   !.stack = SubSeq(@, 1, n - 1),
                   !.val = Tuple(<<Class(cls), proxy>>)]

\* lines 53-56 up to the first step of _hashable_proxy
DeepHashCall(heap, obj, prev) ==
    /\ fn' = "_deephash"
    /\ arg' = [heap |-> heap, obj |-> obj]
    /\ \E base \in 0..(NumBases - 1) :
          LET st == DeepHashStart(obj, base, prev)
          IN  IF HeapHashable(heap, obj)
              THEN /\ ret' = PyHash(TreeOf(heap, obj))
                   /\ loc' = [st EXCEPT !.pc = "done"]
              ELSE /\ ret' = None
                   /\ loc' = st

\* obj is object 1 of a heap of at most MaxEdges items in all, k of them
\* its own; or it is a hashable element
CallDeepHash ==
    /\ fn = "idle"
    /\ \E k \in 0..MaxEdges :
          \E root \in ShapesOfLen(k),
             rest \in ObjectsUpTo(NObj - 1, IF k = 0 THEN 0 ELSE MaxEdges - k),
             obj \in {Ref(1), PyInt(-1)} :
                /\ WellFormed(<<root>> \o rest)
                /\ obj.t # "ref" => root.cls = "other"
                /\ DeepHashCall(<<root>> \o rest, obj, <<>>)

\* the caller hashes the same object once more
CallDeepHashAgain ==
    /\ fn = "_deephash"
    /\ loc.pc = "done"
    /\ loc.prev = <<>>
    /\ DeepHashCall(arg.heap, arg.obj, <<ret>>)

StepHashableProxy ==
    /\ fn = "_deephash"
    /\ loc.pc = "call"
    /\ loc' = HashableProxyEnter(arg.heap, loc)
    /\ ret' = IF loc'.pc = "raised" THEN Raise("TypeError") ELSE ret
    /\ UNCHANGED <<fn, arg>>

StepIterate ==
    /\ fn = "_deephash"
    /\ loc.pc = "iter"
    /\ LET top == loc.stack[Len(loc.stack)]
       IN  IF top.i < Len(arg.heap[top.obj].items)
           THEN loc' = HashableProxyIterate(arg.heap, loc)
           ELSE loc' = HashableProxyBuild(arg.heap, loc)
    /\ UNCHANGED <<fn, arg, ret>>

StepYield ==
    /\ fn = "_deephash"
    /\ loc.pc = "ret"
    /\ loc.stack # <<>>
    /\ loc' = HashableProxyYield(loc)
    /\ UNCHANGED <<fn, arg, ret>>

\* line 56: hash() of the proxy of obj
DeepHashFinish ==
    /\ fn = "_deephash"
    /\ loc.pc = "ret"
    /\ loc.stack = <<>>
    /\ ret' = PyHash(loc.val)
    /\ loc' = [loc EXCEPT !.pc = "done"]
    /\ UNCHANGED <<fn, arg>>

DeepHashReturn ==
    /\ fn = "_deephash"
    /\ loc.pc \in {"done", "raised"}
    /\ fn' = "idle"
    /\ arg' = <<>>
    /\ ret' = None
    /\ loc' = <<>>

\* one call of _deephash at a time
NextDeepHash ==
    \/ CallDeepHash
    \/ StepHashableProxy
    \/ StepIterate
    \/ StepYield
    \/ DeepHashFinish
    \/ DeepHashReturn

SpecDeepHash == Init /\ [][NextDeepHash]_vars

\* calls of _deephash, also a second time on an object already hashed
NextDeepHashTwice == NextDeepHash \/ CallDeepHashAgain

SpecDeepHashTwice == Init /\ [][NextDeepHashTwice]_vars

(***************************************************************************)
(* MultiSource (sources/multi.py)                                          *)
(*                                                                         *)
(* A source is known by its name and the list its columns() returns.  The  *)
(* object built by __init__ is kept in loc while it lives.                 *)
(***************************************************************************)
\* sources given to one MultiSource
MaxSources == 2
\* names in the columns() of one source
MaxColumns == 2

Source(name, columns) == [t |-> "source", v |-> <<name, columns>>]

\* s.columns()
ColumnsOf(s) == s.v[2]

\* AdapterSource(s, interface, missing)
AdapterSource(source, interface, missing) ==
    [t |-> "AdapterSource", v |-> <<source, interface, missing>>]

\* lines 51-53: the loop over the columns of one source, from column j on
RECURSIVE ColumnsLoop(_, _, _)
ColumnsLoop(columns, j, all_columns) ==
    IF j > Len(columns) THEN all_columns
    ELSE ColumnsLoop(columns, j + 1,
                     IF columns[j] \notin Range(all_columns)
                     THEN Append(all_columns, columns[j]) ELSE all_columns)

\* lines 49-53: the loop over the sources, from source i on
RECURSIVE AllColumnsLoop(_, _, _)
AllColumnsLoop(sources, i, all_columns) ==
    IF i > Len(sources) THEN all_columns
    ELSE AllColumnsLoop(sources, i + 1, ColumnsLoop(ColumnsOf(sources[i]), 1, all_columns))

\* lines 58-61: the old name of each column, None for a column the source
\* has not
Interface(all_columns, columns) ==
    [k \in 1..Len(all_columns) |->
        Tuple(<<all_columns[k],
                IF all_columns[k] \in Range(columns) THEN all_columns[k] ELSE None>>)]

\* lines 57-63 with <= for <: one turn of the loop over the sources
NormalizeSource_Subset(s, all_columns, missing) ==
    IF Range(ColumnsOf(s)) \subseteq Range(all_columns)
    THEN AdapterSource(s, Interface(all_columns, ColumnsOf(s)), missing)
    ELSE s

\* lines 57-63: one turn of the loop over the sources
NormalizeSource(s, all_columns, missing) ==
    IF Range(ColumnsOf(s)) \subseteq Range(all_columns)
       /\ Range(ColumnsOf(s)) # Range(all_columns)
    THEN AdapterSource(s, Interface(all_columns, ColumnsOf(s)), missing)
    ELSE s

\* lines 49-67: the attributes of the object after __init__
MultiSourceInit(sources, missing) ==
    [columns |-> AllColumnsLoop(sources, 1, <<>>),
     sources |-> [i \in 1..Len(sources) |->
                    NormalizeSource(sources[i], AllColumnsLoop(sources, 1, <<>>), missing)],
     wrapped |-> Tuple(sources)]

ColumnNames == {PyStr("a"), PyStr("b"), PyStr("c")}

\* the lists that columns() of a source may return: a name may come twice
ColumnLists == SeqsUpTo(ColumnNames, MaxColumns)

\* MultiSource(*sources, missing=missing)
CallMultiSource ==
    /\ fn = "idle"
    /\ \E n \in 0..MaxSources, missing \in {PyStr(""), PyStr("-")} :
          \E columns \in [1..n -> ColumnLists] :
              \E sources \in {[i \in 1..n |-> Source(i, columns[i])]} :
                  /\ fn' = "MultiSource.__init__"
                  /\ arg' = [sources |-> sources, missing |-> missing]
                  /\ ret' = None
                  /\ loc' = MultiSourceInit(sources, missing)

\* lines 77-79: columns() of the object built
CallColumns ==
    /\ fn = "MultiSource.__init__"
    /\ fn' = "MultiSource.columns"
    /\ ret' = List(loc.columns)
    /\ UNCHANGED <<arg, loc>>

\* the object is dropped
MultiSourceReturn ==
    /\ fn \in {"MultiSource.__init__", "MultiSource.columns"}
    /\ fn' = "idle"
    /\ arg' = <<>>
    /\ ret' = None
    /\ loc' = <<>>

NextMultiSource ==
    \/ CallMultiSource
    \/ CallColumns
    \/ MultiSourceReturn

SpecMultiSource == Init /\ [][NextMultiSource]_vars

(***************************************************************************)
(* C2: for a data collection A and a requirement set B the set comparator  *)
(* returns None exactly when set(A) = B; otherwise the iterable yields     *)
(* Extra(x) once for each x in A - B, Missing(x) once for each x in B - A, *)
(* and nothing else.                                                       *)
(***************************************************************************)
C2_SetComparison ==
    (fn = "_require_set" /\ arg.data.t = "list") =>
        LET A == Range(arg.data.v)
            B == arg.requirement_set
        IN  /\ (ret = None) <=> (A = B)
            /\ ret # None =>
                  /\ ret.t = "iter"
                  /\ ret.v = SetToBag({Extra(x) : x \in A \ B})
                                (+) SetToBag({Missing(x) : x \in B \ A})

\* a call whose data repeats an element that is not required, with a
\* required element absent
C2_Witness ==
    /\ fn = "_require_set"
    /\ arg.data.t = "list"
    /\ \E i, j \in 1..Len(arg.data.v) :
          i # j /\ arg.data.v[i] = arg.data.v[j] /\ arg.data.v[i] \notin arg.requirement_set
    /\ arg.requirement_set \ Range(arg.data.v) # {}
    /\ BagCardinality(ret.v) = 2

(***************************************************************************)
(* The sequence aligner.                                                   *)
(***************************************************************************)
\* the aligner ran to its end on data of an ordered-sequence type
AlignerReturned ==
    /\ fn = "_require_sequence"
    /\ ret.t \in {"None", "dict"}

Differences ==
    IF ret.t = "dict"
    THEN [key \in {ret.v[n][1] : n \in 1..Len(ret.v)} |->
            ret.v[CHOOSE n \in 1..Len(ret.v) : ret.v[n][1] = key][2]]
    ELSE <<>>

Min(x, y) == IF x < y THEN x ELSE y
Max(x, y) == IF x < y THEN y ELSE x

\* the keys and differences one run is to give: paired positions are
\* Invalid, what is left of the longer span is Extra or Missing
RunEntries(data, sequence, r) ==
    LET shortest == Min(r.i2 - r.i1, r.j2 - r.j1)
    IN  {<<<<r.i1 + n, r.j1 + n>>, Invalid(data[r.i1 + n + 1], sequence[r.j1 + n + 1])>> :
            n \in 0..(shortest - 1)}
        \cup {<<<<i, r.j2>>, Extra(data[i + 1])>> : i \in (r.i1 + shortest)..(r.i2 - 1)}
        \cup {<<<<r.i2, j>>, Missing(sequence[j + 1])>> : j \in (r.j1 + shortest)..(r.j2 - 1)}

RECURSIVE SumOfRuns(_, _)
SumOfRuns(opcodes, n) ==
    IF n > Len(opcodes) THEN 0
    ELSE (IF opcodes[n].tag = "equal" THEN 0
          ELSE Max(opcodes[n].i2 - opcodes[n].i1, opcodes[n].j2 - opcodes[n].j1))
         + SumOfRuns(opcodes, n + 1)

(***************************************************************************)
(* C4: every run of the aligner that is not 'equal' gives Missing at       *)
(* (i1, j) for each j when i1 = i2, Extra at (i, j1) for each i when       *)
(* j1 = j2, and otherwise Invalid at (i, j) for the first                  *)
(* min(i2-i1, j2-j1) pairs and Extra or Missing for what is left of the    *)
(* longer span; no key is assigned twice, so the result has one entry for  *)
(* each position that is unmatched or replaced, and no other entry.        *)
(***************************************************************************)
C4_RunsToDifferences ==
    AlignerReturned =>
        LET data == ItemsOf(arg.data)
            sequence == arg.sequence.v
            runs == {n \in 1..Len(loc.opcodes) : loc.opcodes[n].tag # "equal"}
            entries == UNION {RunEntries(data, sequence, loc.opcodes[n]) : n \in runs}
        IN  /\ \A n \in runs :
                 LET r == loc.opcodes[n]
                 IN  /\ r.i1 = r.i2 =>
                          \A j \in r.j1..(r.j2 - 1) :
                             <<<<r.i1, j>>, Missing(sequence[j + 1])>> \in entries
                     /\ r.j1 = r.j2 =>
                          \A i \in r.i1..(r.i2 - 1) :
                             <<<<i, r.j1>>, Extra(data[i + 1])>> \in entries
            /\ DOMAIN Differences = {e[1] : e \in entries}
            /\ \A e \in entries : Differences[e[1]] = e[2]
            /\ \A m, n \in 1..Len(loc.writes) :
                 m # n => loc.writes[m].key # loc.writes[n].key
            /\ Cardinality(DOMAIN Differences) = SumOfRuns(loc.opcodes, 1)

\* a replace run whose spans differ in length, after a run of equal items:
\* the result pairs some positions and reports what is left as Missing
C4_Witness ==
    /\ AlignerReturned
    /\ \E n \in 1..Len(loc.opcodes) :
          /\ loc.opcodes[n].tag = "replace"
          /\ loc.opcodes[n].i2 - loc.opcodes[n].i1 < loc.opcodes[n].j2 - loc.opcodes[n].j1
    /\ \E n \in 1..Len(loc.opcodes) : loc.opcodes[n].tag = "equal"
    /\ \E k \in DOMAIN Differences : Differences[k].t = "Invalid"
    /\ \E k \in DOMAIN Differences : Differences[k].t = "Missing"

\* the differences applied to data, position by position: before data[i]
\* every Missing keyed (i, j) is inserted, in the order of j; data[i] is
\* dropped if an Extra is keyed (i, j), replaced by the expected value of an
\* Invalid keyed (i, j), and kept otherwise
RECURSIVE MissingFrom(_, _, _, _)
MissingFrom(diffs, i, j, top) ==
    IF j > top THEN <<>>
    ELSE (IF <<i, j>> \in DOMAIN diffs /\ diffs[<<i, j>>].t = "Missing"
          THEN <<diffs[<<i, j>>].v[1]>> ELSE <<>>)
         \o MissingFrom(diffs, i, j + 1, top)

RECURSIVE ApplyFrom(_, _, _, _)
ApplyFrom(data, diffs, i, top) ==
    IF i > Len(data) THEN <<>>
    ELSE LET here == {k \in DOMAIN diffs : k[1] = i /\ diffs[k].t # "Missing"}
         IN  MissingFrom(diffs, i, 0, top)
             \o (IF i = Len(data) THEN <<>>
                 ELSE IF here = {} THEN <<data[i + 1]>>
                 ELSE LET k == CHOOSE k \in here : TRUE
                      IN  IF diffs[k].t = "Extra" THEN <<>> ELSE <<diffs[k].v[2]>>)
             \o ApplyFrom(data, diffs, i + 1, top)

ApplyDifferences(data, diffs) == ApplyFrom(data, diffs, 0, MaxSeqTotal + 1)

(***************************************************************************)
(* C3: for sequences A (data) and B (expected), the differences the        *)
(* aligner gives, applied to A position by position, give B; and the       *)
(* aligner returns None exactly when A and B are equal item by item.       *)
(***************************************************************************)
C3_RoundTrip ==
    (fn = "_require_sequence" /\ arg.data.t = "list") =>
        /\ ret.t \in {"None", "dict"}
        /\ ApplyDifferences(arg.data.v, Differences) = arg.sequence.v
        /\ (ret = None) <=> (arg.data.v = arg.sequence.v)

\* the same for sequences of hashable items, which the matcher compares
\* by equality
C3_RoundTripHashable ==
    (/\ fn = "_require_sequence"
     /\ arg.data.t = "list"
     /\ \A i \in 1..Len(arg.data.v) : IsHashable(arg.data.v[i])
     /\ \A j \in 1..Len(arg.sequence.v) : IsHashable(arg.sequence.v[j])) =>
        /\ ret.t \in {"None", "dict"}
        /\ ApplyDifferences(arg.data.v, Differences) = arg.sequence.v
        /\ (ret = None) <=> (arg.data.v = arg.sequence.v)

(***************************************************************************)
(* The predicate comparator.                                               *)
(***************************************************************************)
\* what the predicate of the call gives for an element
OutcomeFor(element) == arg.function.v[2][element]

\* the elements the call handed to the predicate
CalledElements ==
    IF arg.data = NOTFOUND THEN <<>>
    ELSE IF IsBaseElement(arg.data) THEN <<arg.data>> ELSE arg.data.v

\* the differences the call gave, in order, however it gave them
GivenDifferences ==
    IF ret.t = "generator" THEN ret.v[1]
    ELSE IF IsDifference(ret) THEN <<ret>> ELSE <<>>

\* the exception met by the caller, at the call or while consuming
RaisedToCaller ==
    IF ret.t = "raise" THEN ret.v
    ELSE IF ret.t = "generator" /\ ret.v[2] # "StopIteration" THEN ret.v[2]
    ELSE "none"

MapSeq(s, Op(_)) == [k \in 1..Len(s) |-> Op(s[k])]

(***************************************************************************)
(* C7: an exception raised by the predicate on an element counts as        *)
(* False.  When the predicate gives True, False or an exception for every  *)
(* element of data, the result holds Invalid(element) once for each        *)
(* element on which it raised or returned False, nothing for the others,   *)
(* and no exception reaches the caller.                                    *)
(***************************************************************************)
C7_PredicateExceptions ==
    /\ fn = "_require_callable" => RaisedToCaller # "Exception"
    /\ (/\ fn = "_require_callable"
        /\ arg.data # NOTFOUND
        /\ \A k \in 1..Len(CalledElements) :
              OutcomeFor(CalledElements[k])
                 \in {PyBool(TRUE), PyBool(FALSE), Raise("Exception")}) =>
          LET failing == SelectSeq(CalledElements,
                                   LAMBDA e : OutcomeFor(e) # PyBool(TRUE))
              invalid(e) == Invalid(e, None)
          IN  /\ RaisedToCaller = "none"
              /\ GivenDifferences = MapSeq(failing, invalid)
              /\ (ret = None) <=> (failing = <<>>)

\* a collection on which the predicate raises for one element, returns
\* False for another and True for a third
C7_Witness ==
    /\ fn = "_require_callable"
    /\ arg.data.t = "list"
    /\ \E i, j, k \in 1..Len(arg.data.v) :
          /\ OutcomeFor(arg.data.v[i]) = Raise("Exception")
          /\ OutcomeFor(arg.data.v[j]) = PyBool(FALSE)
          /\ OutcomeFor(arg.data.v[k]) = PyBool(TRUE)
    /\ Len(GivenDifferences) = 2
    /\ RaisedToCaller = "none"

KindOf(func) ==
    CASE func = "_require_sequence" -> "sequence alignment"
      [] func = "_require_set" -> "set membership"
      [] func = "_require_callable" -> "predicate"
      [] func = "_require_regex" -> "pattern"
      [] func = "_apply_mapping_requirement" -> "mapping"
      [] func \in {"_require_equality", "_require_single_equality"} -> "scalar equality"

\* the first of the tests, taken in the order given, that the requirement
\* passes, and scalar equality when it passes none
FirstMatch(requirement, order) ==
    LET passes(kind) ==
            CASE kind = "sequence alignment" ->
                    requirement.t # "str" /\ IsSequence(requirement)
              [] kind = "set membership" -> IsSet(requirement)
              [] kind = "predicate" -> IsCallable(requirement)
              [] kind = "pattern" -> requirement.t = "regex"
              [] kind = "mapping" -> IsMapping(requirement)
        matching == {n \in 1..Len(order) : passes(order[n])}
    IN  IF matching = {} THEN "scalar equality"
        ELSE order[CHOOSE n \in matching : \A m \in matching : n <= m]

\* a call that classified a requirement
Classified == fn \in {"_get_difference_info", "_apply_mapping_requirement"}

\* the requirement the call was given
GivenRequirement == IF fn = "_get_difference_info" THEN arg.requirement ELSE arg.mapping

\* C1 as it is claimed: one order, sequence, set, predicate, pattern,
\* mapping, for the requirement and for the requirement of each key
C1_ClaimedOrder ==
    LET order == <<"sequence alignment", "set membership", "predicate", "pattern",
                   "mapping">>
    IN  /\ fn = "_get_difference_info" =>
              KindOf(loc.top) = FirstMatch(arg.requirement, order)
        /\ Classified =>
              \A n \in 1..Len(loc.selected) :
                 KindOf(loc.selected[n].func)
                    = FirstMatch(MappingGet(GivenRequirement, loc.selected[n].key), order)

(***************************************************************************)
(* C1: the first test passed wins.  A requirement given to                 *)
(* _get_difference_info is tested for a mapping first, and a mapping       *)
(* selects the mapping comparator, which classifies the requirement of     *)
(* each key.  Every other requirement, and the requirement of a key of a   *)
(* mapping requirement, is tested in the order: sequence that is not a     *)
(* string (sequence alignment), set (set membership), callable             *)
(* (predicate), compiled regex (pattern), and anything else selects scalar *)
(* equality: a mapping that is the requirement of a key is compared by     *)
(* scalar equality.                                                        *)
(***************************************************************************)
C1_Classification ==
    LET inner == <<"sequence alignment", "set membership", "predicate", "pattern">>
        outer == <<"mapping">> \o inner
    IN  /\ fn = "_get_msg_and_func" =>
              KindOf(loc.top) = FirstMatch(arg.requirement, inner)
        /\ fn = "_get_difference_info" =>
              KindOf(loc.top) = FirstMatch(arg.requirement, outer)
        /\ Classified =>
              \A n \in 1..Len(loc.selected) :
                 KindOf(loc.selected[n].func)
                    = FirstMatch(MappingGet(GivenRequirement, loc.selected[n].key), inner)

\* a mapping requirement whose key requires a mapping, with data under
\* that key: the key is compared by scalar equality
C1_Witness ==
    /\ fn = "_get_difference_info"
    /\ loc.top = "_apply_mapping_requirement"
    /\ \E n \in 1..Len(loc.selected) :
          /\ IsMapping(MappingGet(arg.requirement, loc.selected[n].key))
          /\ KindOf(loc.selected[n].func) = "scalar equality"

(***************************************************************************)
(* The mapping comparator.                                                 *)
(***************************************************************************)
\* the mapping comparator was given data grouped by key
MappingCompared ==
    /\ fn = "_apply_mapping_requirement"
    /\ arg.data.t \in {"dict", "DictItems"}

DataItems == IF arg.data.t = "DictItems" THEN arg.data.v[1] ELSE arg.data.v
DataKeys == {DataItems[n][1] : n \in 1..Len(DataItems)}
RequirementKeys == {arg.mapping.v[n][1] : n \in 1..Len(arg.mapping.v)}

\* the places of a key in the result
PlacesOf(key) == {n \in 1..Len(ret.v[1]) : ret.v[1][n][1] = key}

\* a difference, or a list of differences that is not empty
IsDifferenceEntry(obj) ==
    \/ IsDifference(obj)
    \/ obj.t = "list" /\ obj.v # <<>> /\ \A n \in 1..Len(obj.v) : IsDifference(obj.v[n])
    \/ obj.t = "list_in_set_order" /\ BagToSet(obj.v) # {}
    \/ obj.t = "dict" /\ obj.v # <<>>

(***************************************************************************)
(* C6: for every key of the mapping requirement that is not seen in data   *)
(* the mapping comparator compares NOTFOUND against the key's requirement  *)
(* with the comparator that the requirement selects, and the result has a  *)
(* difference for the key, whatever the requirement is and also when data  *)
(* has no item.                                                            *)
(***************************************************************************)
C6_AbsentKeys ==
    MappingCompared =>
        \A key \in RequirementKeys \ DataKeys :
            /\ \E n \in PlacesOf(key) : IsDifferenceEntry(ret.v[1][n][2])
            /\ \E n \in 1..Len(loc.selected) :
                  /\ loc.selected[n].key = key
                  /\ KindOf(loc.selected[n].func)
                        = KindOf(GetMsgAndFunc(NOTFOUND, MappingGet(arg.mapping, key)).func)

(***************************************************************************)
(* C5: the mapping comparator is key-complete.  No key comes twice in the  *)
(* result; a key of the requirement that data lacks, and a key of data     *)
(* that the requirement lacks, comes once; a key of both comes once when   *)
(* its value gives a difference against its requirement and not at all     *)
(* when it gives none.                                                     *)
(***************************************************************************)
C5_KeyComplete ==
    MappingCompared =>
        /\ \A key \in DataKeys \cup RequirementKeys : Cardinality(PlacesOf(key)) <= 1
        /\ \A key \in RequirementKeys \ DataKeys : Cardinality(PlacesOf(key)) = 1
        /\ \A n \in 1..Len(DataItems) :
              LET key == DataItems[n][1]
                  actual == DataItems[n][2]
                  expected == MappingGet(arg.mapping, key)
                  diff == ApplyFunc(GetMsgAndFunc(actual, expected).func, actual, expected)
              IN  IF key \notin RequirementKeys
                  THEN actual # List(<<>>) => Cardinality(PlacesOf(key)) = 1
                  ELSE (diff.t # "raise" /\ ~IsTrue(diff)) <=> (PlacesOf(key) = {})

(***************************************************************************)
(* C9: deep hash is stable.  Hashing the same object a second time gives   *)
(* the code of the first time; and an object whose parts are lists and     *)
(* tuples, with no cycle, gets the code of the equal value built with no   *)
(* part referenced twice.                                                  *)
(***************************************************************************)
DeepHashed == fn = "_deephash" /\ loc.pc = "done"

ListsAndTuples(heap) ==
    \A o \in {1} \cup Reaches(heap, 1) : heap[o].cls \in {"list", "tuple"}

C9_Stable ==
    DeepHashed =>
        /\ loc.prev # <<>> => ret = loc.prev[1]
        /\ (~Cyclic(arg.heap) /\ ListsAndTuples(arg.heap)) =>
              ret = DeepHashTree(TreeOf(arg.heap, arg.obj))

(***************************************************************************)
(* C10: deep hash is cycle-safe.  For an object that reaches only          *)
(* sequences, sets, mappings and hashable elements the call does not       *)
(* raise; it always has a next step until it is done, and it is done       *)
(* within a number of steps fixed by the size of the heap; no object is    *)
(* expanded twice in one call, and an object met again gives its token.    *)
(***************************************************************************)
ContainersOnly(heap, obj) ==
    obj.t = "ref" =>
        \A o \in {obj.v} \cup Reaches(heap, obj.v) : heap[o].cls \in Containers

RECURSIVE SumLen(_, _)
SumLen(heap, os) ==
    IF os = {} THEN 0
    ELSE LET o == CHOOSE x \in os : TRUE
         IN  Len(heap[o].items) + SumLen(heap, os \ {o})

\* one call of _hashable_proxy for obj and one for each item of an object;
\* a call takes at most four steps: enter, taken by the caller's generator,
\* the last look at the items, return into the caller
StepBound(heap) == 4 * (1 + SumLen(heap, ObjIds))

C10_CycleSafe ==
    fn = "_deephash" =>
        /\ \A o \in ObjIds : loc.expanded[o] <= 1
        /\ loc.steps <= StepBound(arg.heap)
        /\ ContainersOnly(arg.heap, arg.obj) => loc.pc # "raised"
        /\ loc.pc \notin {"done", "raised"} =>
              ENABLED (StepHashableProxy \/ StepIterate \/ StepYield \/ DeepHashFinish)
        /\ (loc.pc = "ret" /\ loc.val.t = "object") =>
              \E o \in ObjIds : /\ loc.already_seen[o] = loc.val.v
                                /\ loc.expanded[o] = 1

\* a list that holds itself has been hashed: its proxy holds its token
C10_Witness ==
    /\ DeepHashed
    /\ arg.obj = Ref(1)
    /\ 1 \in RefsOf(arg.heap[1])
    /\ loc.steps > 0
    /\ loc.expanded[1] = 1
    /\ ret.t = "hash_tuple"
(***************************************************************************)
(* Equality comparison                                                     *)
(***************************************************************************)
EqualityCompared == fn \in {"_require_equality", "_require_single_equality"}

\* the elements the comparator tests: data itself, or its items
ElementsOf(data) == IF IsBaseElement(data) THEN <<data>> ELSE ItemsOf(data)

\* x == x holds
SelfEqual(x) == PyEquals(x, x) = "True"

\* data holds nothing but the requirement itself
OnlyCopiesOf(data, x) == \A k \in 1..Len(ElementsOf(data)) : ElementsOf(data)[k] = x

\* C11: a requirement that equals itself, compared for equality with data
\* holding nothing but that value (the value alone, or a collection of
\* copies of it, the empty one included), gives None
C11_Reflexive ==
    (EqualityCompared /\ SelfEqual(arg.other) /\ OnlyCopiesOf(arg.data, arg.other))
        => ret = None

C11_Witness ==
    /\ EqualityCompared
    /\ arg.other = PyInt(1)
    /\ arg.data = List(<<PyInt(1), PyInt(1)>>)
    /\ ret = None

\* the differences given for the elements, in order, when the test of each
\* is other == element and a test that raises counts as unequal
RECURSIVE DifferencesByRequirement(_, _, _)
DifferencesByRequirement(elements, other, show_expected) ==
    IF elements = <<>> THEN <<>>
    ELSE (IF PyEquals(other, Head(elements)) = "True" THEN <<>>
          ELSE <<MakeDifference(Head(elements), other, show_expected)>>)
         \o DifferencesByRequirement(Tail(elements), other, show_expected)

\* what the comparator returned, as a sequence of differences; <<ret>> for
\* anything that is neither None, a difference nor a finished generator
ReturnedDifferences ==
    IF ret = None THEN <<>>
    ELSE IF ret.t = "generator" /\ ret.v[2] = "StopIteration" THEN ret.v[1]
    ELSE <<ret>>

SetCompared == fn = "ResultSet.compare"

ProperSubset(a, b) == a \subseteq b /\ a # b

\* C13: ResultSet.compare with op '<' on sets of equal membership returns
\* the list [NotProperSubset()], with op '>' the list [NotProperSuperset()],
\* never the empty list; when the strict relation holds the list is empty;
\* with '<=' it holds Extra(x) for the x of self - other and with '>='
\* Missing(x) for the x of other - self
C13_StrictSentinel ==
    SetCompared =>
        /\ ret.t = "list_in_set_order"
        /\ (arg.op = "<" /\ arg.self = arg.other) => ret.v = SetToBag({NotProperSubset})
        /\ (arg.op = ">" /\ arg.self = arg.other) => ret.v = SetToBag({NotProperSuperset})
        /\ (arg.op = "<" /\ ProperSubset(arg.self, arg.other)) => ret.v = EmptyBag
        /\ (arg.op = ">" /\ ProperSubset(arg.other, arg.self)) => ret.v = EmptyBag
        /\ arg.op = "<=" => ret.v = SetToBag({Extra(x) : x \in arg.self \ arg.other})
        /\ arg.op = ">=" => ret.v = SetToBag({Missing(x) : x \in arg.other \ arg.self})

\* the strict comparison of a set of two elements with itself
C13_Witness ==
    /\ SetCompared
    /\ arg.op = "<"
    /\ arg.self = arg.other
    /\ Cardinality(arg.self) = 2
    /\ ret = ListInSetOrder(SetToBag({NotProperSubset}))

(***************************************************************************)
(* ResultMapping.compare                                                   *)
(***************************************************************************)
MappingCellsCompared == fn = "ResultMapping.compare"

\* the number in a cell; the cell must be present
CellOf(mapping, key) == MappingGet(mapping, key).v

Present(mapping, key) == MappingGet(mapping, key) # NOTFOUND

\* the differences that the conventions give the key: d - r against r for
\* unequal numbers, -r against r for a cell absent from the data, d against
\* None for a cell absent from the reference
ConventionFor(key) ==
    IF Present(arg.self, key) /\ Present(arg.other, key)
    THEN IF CellOf(arg.self, key) = CellOf(arg.other, key) THEN {}
         ELSE {[t |-> "Deviation",
                v |-> <<PyInt(CellOf(arg.self, key) - CellOf(arg.other, key)),
                        PyInt(CellOf(arg.other, key)), <<arg.key_names, key>> >>]}
    ELSE IF Present(arg.other, key)
    THEN {[t |-> "Deviation",
           v |-> <<PyInt(0 - CellOf(arg.other, key)),
                   PyInt(CellOf(arg.other, key)), <<arg.key_names, key>> >>]}
    ELSE {[t |-> "Deviation",
           v |-> <<PyInt(CellOf(arg.self, key)), None, <<arg.key_names, key>> >>]}

\* C14: ResultMapping.compare on numeric cells gives, for every key of
\* either side, Deviation(d - r, r) when both cells are present and unequal,
\* Deviation(-r, r) when the cell is absent from the data, as for a data
\* cell of zero, a Deviation with expected None when it is absent from the
\* reference, and expected 0 when the reference cell is zero; equal cells
\* give nothing, and every difference carries its key under key_names
C14_DeviationConventions ==
    MappingCellsCompared =>
        /\ ret.t = "list_in_set_order"
        /\ ret.v = SetToBag(UNION {ConventionFor(key) :
                                     key \in KeysOf(arg.self.v) \cup KeysOf(arg.other.v)})

\* data with a zero where the reference has no cell, and no cell where the
\* reference has a number
C14_Witness ==
    /\ MappingCellsCompared
    /\ arg.self = Dict(<<<<"b", PyInt(0)>>>>)
    /\ arg.other = Dict(<<<<"a", PyInt(2)>>>>)
    /\ ret.v = SetToBag({[t |-> "Deviation", v |-> <<PyInt(0), None, <<"foo", "b">> >>],
                          [t |-> "Deviation", v |-> <<PyInt(-2), PyInt(2), <<"foo", "a">> >>]})

(***************************************************************************)
(* The type check of _require_sequence                                     *)
(***************************************************************************)
\* the type that data declares for its evaluation, or its class
DeclaredType == IF arg.data.t = "DataResult" THEN arg.data.v[1] ELSE arg.data.t

\* a type of single elements, or a type that is no sequence
NotOrderedType(type) == IsBaseElementType(type) \/ ~IsSequenceType(type)

\* C15: _require_sequence raises ValueError with a message that names the
\* type when the evaluation_type of data, or its class when it has none, is
\* a type of single elements or no sequence type, and makes no difference
\* then; for data of any other type it does not raise ValueError
C15_TypeCheck ==
    fn = "_require_sequence" =>
        /\ NotOrderedType(DeclaredType) =>
              /\ ret = Raise("ValueError")
              /\ Len(loc.msg) = 3 /\ loc.msg[2] = DeclaredType
              /\ loc.writes = <<>>
        /\ ~NotOrderedType(DeclaredType) => ret # Raise("ValueError")

\* an iterable that declares a set as its type
C15_Witness ==
    /\ fn = "_require_sequence"
    /\ arg.data = DataResult("set", <<PyInt(1)>>)
    /\ ret = Raise("ValueError")
    /\ loc.msg = SequenceOrderMessage("set")

(***************************************************************************)
(* _get_difference_info on a mapping of data and a requirement that is no  *)
(* mapping                                                                 *)
(***************************************************************************)
GroupsCompared ==
    fn = "_get_difference_info" /\ IsMapping(arg.data) /\ ~IsMapping(arg.requirement)

\* the comparator and message selected from the whole of data
WholeSelection == GetMsgAndFunc(arg.data, arg.requirement)

GroupItems == MappingItems(arg.data)

\* what the comparator gives for the value of item n
ValueResult(n) == ApplyFunc(WholeSelection.func, GroupItems[n][2], arg.requirement)

\* the entry of a result: the result as it is when it is one difference or
\* the mapping of a sequence comparison, and the list of any other
EntryOf(result) ==
    IF IsDifference(result) \/ result.t = "dict" THEN result ELSE ListOf(result)

\* the comparison of item n raises, at once or when its result is listed
GroupRaises(n) == IsTrue(ValueResult(n)) /\ EntryOf(ValueResult(n)).t = "raise"

\* the entries of the items whose result is true, in the order of data
ExpectedEntries ==
    LET kept == SelectSeq([n \in 1..Len(GroupItems) |-> n],
                          LAMBDA n : IsTrue(ValueResult(n)))
    IN  [k \in 1..Len(kept) |-> <<GroupItems[kept[k]][1], EntryOf(ValueResult(kept[k]))>>]

\* the entries of the returned info
ReturnedEntries == IF ret = None THEN <<>> ELSE ret.v[2].v[1]

IsListOfDifferences(obj) ==
    \/ obj.t = "list" /\ \A n \in 1..Len(obj.v) : IsDifference(obj.v[n])
    \/ obj.t = "list_in_set_order" /\ \A x \in BagToSet(obj.v) : IsDifference(x)

\* C16 as claimed: the keys of the result are those whose value gave a
\* difference, and the entry of a key is one Difference when its value is a
\* single element and a list of Differences when its value is a collection
C16_ClaimedEntries ==
    (GroupsCompared /\ \A n \in 1..Len(GroupItems) : ~GroupRaises(n)) =>
        /\ (ret = None) <=> (\A n \in 1..Len(GroupItems) : ~IsTrue(ValueResult(n)))
        /\ \A k \in 1..Len(ReturnedEntries) :
              IF IsBaseElement(MappingGet(arg.data, ReturnedEntries[k][1]))
              THEN IsDifference(ReturnedEntries[k][2])
              ELSE IsListOfDifferences(ReturnedEntries[k][2])

\* C16, amended: the comparator is selected once, from the whole of data,
\* and applied to the value of each key; when no comparison raises, the
\* result is None if no value gave a true result, and otherwise holds, in
\* the order of data, exactly the keys whose value gave one, each with the
\* result of its comparator: one Difference or the mapping of a sequence
\* comparison as it is, any other iterable as a list, whether the value is
\* a collection or not; when a comparison raises, the exception is raised
\* or ends the items of the result
C16_PerKeyEntries ==
    GroupsCompared =>
        /\ loc.top = WholeSelection.func
        /\ (\A n \in 1..Len(GroupItems) : ~GroupRaises(n)) =>
              IF ExpectedEntries = <<>> THEN ret = None
              ELSE ret = Tuple(<<PyStr(WholeSelection.msg),
                                 DictItems(ExpectedEntries, "StopIteration")>>)
        /\ (\E n \in 1..Len(GroupItems) : GroupRaises(n)) =>
              \/ ret.t = "raise"
              \/ ret.t = "tuple" /\ ret.v[2].t = "DictItems"
                                 /\ ret.v[2].v[2] # "StopIteration"

\* a scalar requirement, a key with a list of that scalar and a key with
\* the scalar: the list as a whole is compared with the scalar
C16_Witness ==
    /\ GroupsCompared
    /\ arg.requirement = PyInt(1)
    /\ arg.data = Dict(<<<<"a", List(<<PyInt(1)>>)>>, <<"b", PyInt(1)>>>>)
    /\ ReturnedEntries = <<<<"a", Invalid(List(<<PyInt(1)>>), PyInt(1))>>>>

(***************************************************************************)
(* MultiSource                                                             *)
(***************************************************************************)
MultiSourceBuilt == fn \in {"MultiSource.__init__", "MultiSource.columns"}

\* the columns of all the sources, one source after the other
RECURSIVE Concatenated(_)
Concatenated(sources) ==
    IF sources = <<>> THEN <<>>
    ELSE ColumnsOf(Head(sources)) \o Concatenated(Tail(sources))

\* where a name comes first in a list
FirstPlace(list, x) == CHOOSE k \in 1..Len(list) : list[k] = x /\ \A m \in 1..(k - 1) : list[m] # x

\* the source lacks one of the columns
Lacks(s, columns) == \E c \in Range(columns) : c \notin Range(ColumnsOf(s))

\* C17: once a MultiSource is built, columns() holds every column of every
\* source once, in the order in which the names first appear over the
\* sources as given; a source that lacks one of these columns stands in the
\* list of sources iterated as an adapter of it whose interface names all
\* the columns, a source that has them all stands there itself, and
\* __wrapped__ holds the sources as given
C17_ColumnsAndAdapters ==
    MultiSourceBuilt =>
        LET given == arg.sources
            every == Concatenated(given)
        IN  /\ Range(loc.columns) = Range(every)
            /\ \A m, n \in 1..Len(loc.columns) : m < n =>
                  /\ loc.columns[m] # loc.columns[n]
                  /\ FirstPlace(every, loc.columns[m]) < FirstPlace(every, loc.columns[n])
            /\ fn = "MultiSource.columns" => ret = List(loc.columns)
            /\ Len(loc.sources) = Len(given)
            /\ \A i \in 1..Len(given) :
                  IF Lacks(given[i], loc.columns)
                  THEN /\ loc.sources[i].t = "AdapterSource"
                       /\ loc.sources[i].v[1] = given[i]
                       /\ [k \in 1..Len(loc.sources[i].v[2]) |-> loc.sources[i].v[2][k].v[1]]
                             = loc.columns
                  ELSE loc.sources[i] = given[i]
            /\ loc.wrapped = Tuple(given)

\* two sources that share a column: the first lacks a column of the second
\* and is adapted, the second has them all and is kept
C17_Witness ==
    /\ fn = "MultiSource.columns"
    /\ arg.sources = <<Source(1, <<PyStr("b")>>), Source(2, <<PyStr("a"), PyStr("b")>>)>>
    /\ ret = List(<<PyStr("b"), PyStr("a")>>)
    /\ loc.sources[1].t = "AdapterSource"
    /\ loc.sources[2] = arg.sources[2]

====
